---- MODULE Spec2Model ----
(***************************************************************************)
(* Model of the Jira epic analyzer's hierarchy builder,                    *)
(* DataProcessor.processMainCSV: pass 1 (epic discovery), pass 2 (child    *)
(* attribution by four linkage strategies), the balanced-distribution      *)
(* fallback, and the final sort and flattening.  One action per loop       *)
(* iteration of the three forEach loops, one per phase change.             *)
(*                                                                         *)
(* Issue keys are sequences of characters so that the project-key regular  *)
(* expression and localeCompare are computed, not assumed.  The alphabet   *)
(* is "-", digits and upper-case letters, on which localeCompare of the    *)
(* root collation coincides with the per-character order of Alphabet.      *)
(* Story points are integers (parseFloat of integer text).  All columns    *)
(* are taken to be resolved by findColumn; a cell the CSV does not fill    *)
(* is the empty text, as CSVParser.parseFile produces it.                  *)
(*                                                                         *)
(* The Time/SLA engine (parseTimeInStatus, calculateSLAStatus) is checked  *)
(* under SpecSLA, whose initial states draw the arguments and whose        *)
(* actions apply the functions.  Duration texts are sequences of           *)
(* characters; durations are counted in hours (24 times the code's value   *)
(* in days) so that hours/24 stays an integer.                             *)
(***************************************************************************)
EXTENDS Integers, Sequences, FiniteSets, TLC

VARIABLES records, pc, i, issuesById, epics, epicsByKey, linkedIssuesCount,
          nonEpicIssues, epicsByProject, result,
          fpc, statusArg, timeString, thresholds, parsed, slaStatus,
          epicsArg, timeMap, mpc, mi, mergedEpics, metrics,
          headersArg, possibleNames, cpc, found,
          runs, apc, thisMainData, thisTimeData, thisEpicsData,
          thisChildIssuesData,
          uiEpicsData, metricsData, resultsVisible, errorMessage, previousRun

\* State of processMainCSV.
mainVars == <<records, pc, i, issuesById, epics, epicsByKey, linkedIssuesCount,
              nonEpicIssues, epicsByProject, result>>

\* Arguments and results of the Time/SLA engine's functions.
slaVars == <<fpc, statusArg, timeString, thresholds, parsed, slaStatus>>

\* Arguments and results of mergeEpicData and calculateMetrics.
mergeVars == <<epicsArg, timeMap, mpc, mi, mergedEpics, metrics>>

\* Arguments and result of findColumn.
findVars == <<headersArg, possibleNames, cpc, found>>

\* The application: the analyze runs that await their files, the position
\* of the handler that is running, the fields of JiraEpicAnalyzer and of
\* UIController, the message element, and the inputs and outputs of the
\* last run that stored its epics.
appVars == <<runs, apc, thisMainData, thisTimeData, thisEpicsData,
             thisChildIssuesData, uiEpicsData, metricsData, resultsVisible,
             errorMessage, previousRun>>

vars == <<mainVars, slaVars, mergeVars, findVars, appVars>>

(***************************************************************************)
(* Bounds of the input families.                                           *)
(***************************************************************************)
MaxRecords == 3
MaxDistRecords == 4
MaxCore == 3
MaxPad == 9

(***************************************************************************)
(* Text helpers.                                                           *)
(***************************************************************************)
Alphabet ==
  <<"-", "0", "1", "2", "3", "4", "5", "6", "7", "8", "9",
    "A", "B", "C", "E", "I", "K", "P", "S", "T">>

UpperCaseLetters == {"A", "B", "C", "E", "I", "K", "P", "S", "T"}

CharRank(c) == CHOOSE n \in 1..Len(Alphabet) : Alphabet[n] = c

RECURSIVE localeCompare(_, _)
localeCompare(a, b) ==
  IF a = <<>> THEN (IF b = <<>> THEN 0 ELSE -1)
  ELSE IF b = <<>> THEN 1
  ELSE IF CharRank(Head(a)) < CharRank(Head(b)) THEN -1
  ELSE IF CharRank(Head(a)) > CharRank(Head(b)) THEN 1
  ELSE localeCompare(Tail(a), Tail(b))

toLowerCase(s) ==
  CASE s = "Epic" -> "epic"
    [] s = "Story" -> "story"
    [] s = "Task" -> "task"
    [] s = "Done" -> "done"
    [] s = "In Progress" -> "in progress"
    [] s = "DONE" -> "done"
    [] s = "Released" -> "released"
    [] s = "Blocked" -> "blocked"
    [] OTHER -> s

COMPLETED_STATUSES ==
  {"done", "completed", "closed", "released", "deployed to production", "signed off"}

\* Texts that parseFloat reads as a number; any other text gives NaN.
NumericTexts == {"0", "2", "3", "5", "-2"}

parseFloat(text) ==
  CASE text = "0" -> 0
    [] text = "2" -> 2
    [] text = "3" -> 3
    [] text = "5" -> 5
    [] text = "-2" -> -2

\* parseFloat(record[pointsCol] || 0) || 0
StoryPointsOf(cell) ==
  IF cell = "" THEN 0
  ELSE IF cell \notin NumericTexts THEN 0
  ELSE parseFloat(cell)

\* Length of the leading run of upper-case letters of key.
RECURSIVE UpperRun(_)
UpperRun(key) ==
  IF key = <<>> THEN 0
  ELSE IF Head(key) \in UpperCaseLetters THEN 1 + UpperRun(Tail(key))
  ELSE 0

NoProject == <<>>

\* key?.match(/^([A-Z]+-)/): the matched prefix, or NoProject for null.
getProjectKey(key) ==
  LET n == UpperRun(key)
  IN IF n >= 1 /\ Len(key) > n /\ key[n + 1] = "-"
     THEN SubSeq(key, 1, n + 1)
     ELSE NoProject

(***************************************************************************)
(* Maps (JavaScript Map / object): functions with a growing domain.        *)
(***************************************************************************)
EmptyMap == <<>>

MapHas(m, k) == k \in DOMAIN m

MapSet(m, k, v) == [x \in (DOMAIN m) \cup {k} |-> IF x = k THEN v ELSE m[x]]

(***************************************************************************)
(* Input records.                                                          *)
(***************************************************************************)
KA1 == <<"A", "-", "1">>
KA2 == <<"A", "-", "2">>
KA3 == <<"A", "-", "3">>
KA4 == <<"A", "-", "4">>
KA9 == <<"A", "-", "9">>
KB1 == <<"B", "-", "1">>
KB2 == <<"B", "-", "2">>
KC1 == <<"C", "-", "1">>
KNoHyphen == <<"A", "5">>
NoKey == <<>>

EpicRecord(key, id, status, points) ==
  [key |-> key, id |-> id, type |-> "Epic", status |-> status, points |-> points,
   epicLink |-> NoKey, epicKey |-> NoKey, parent |-> "", customParent |-> NoKey]

IssueRecord(key, type, status, points, epicLink, epicKey, parent, customParent) ==
  [key |-> key, id |-> "", type |-> type, status |-> status, points |-> points,
   epicLink |-> epicLink, epicKey |-> epicKey, parent |-> parent,
   customParent |-> customParent]

\* Family 1: records that exercise the four linkage strategies.
LinkShapes ==
  { EpicRecord(KA1, "1", "In Progress", "2"),
    EpicRecord(KA2, "2", "Done", "2"),
    EpicRecord(KA1, "3", "Done", "0"),
    IssueRecord(KA3, "Story", "Done", "3", KA1, NoKey, "2", NoKey),
    IssueRecord(KA3, "Story", "In Progress", "-2", NoKey, NoKey, "2", NoKey),
    IssueRecord(KC1, "Story", "Done", "3", NoKey, KA2, "", NoKey),
    IssueRecord(KC1, "Story", "In Progress", "3", NoKey, NoKey, "", KA1),
    IssueRecord(KA4, "Story", "Done", "3", NoKey, NoKey, "", NoKey),
    IssueRecord(KC1, "Story", "In Progress", "-2", NoKey, NoKey, "", NoKey),
    IssueRecord(KA4, "Story", "Done", "x", KA9, NoKey, "", KA2) }

\* Family 2: unlinked records over several projects, for the fallback.
DistShapes ==
  { EpicRecord(KA1, "1", "In Progress", "2"),
    EpicRecord(KA2, "2", "Done", "2"),
    EpicRecord(KB1, "3", "In Progress", "0"),
    IssueRecord(KA3, "Story", "Done", "3", NoKey, NoKey, "", NoKey),
    IssueRecord(KB2, "Story", "In Progress", "2", NoKey, NoKey, "", NoKey),
    IssueRecord(KC1, "Story", "Done", "2", NoKey, NoKey, "", NoKey),
    IssueRecord(KNoHyphen, "", "Done", "2", NoKey, NoKey, "", NoKey) }

\* Family 3: a short core followed by many unlinkable records, so that the
\* linked count falls on either side of 10% of the record count.
CoreShapes ==
  { EpicRecord(KA1, "1", "In Progress", "2"),
    EpicRecord(KA2, "2", "Done", "2"),
    IssueRecord(KA3, "Story", "Done", "3", KA1, NoKey, "2", NoKey),
    IssueRecord(KA4, "Story", "Done", "3", NoKey, NoKey, "", NoKey) }

PadRecord == IssueRecord(KC1, "Story", "In Progress", "2", NoKey, NoKey, "", NoKey)

SeqsUpTo(S, n) == UNION { [1..k -> S] : k \in 0..n }

Padding(k) == [x \in 1..k |-> PadRecord]

Inputs ==
  SeqsUpTo(LinkShapes, MaxRecords)
  \cup SeqsUpTo(DistShapes, MaxDistRecords)
  \cup { core \o Padding(k) : core \in SeqsUpTo(CoreShapes, MaxCore) \ {<<>>},
                              k \in (MaxPad - 2)..MaxPad }

(***************************************************************************)
(* Time/SLA engine: parseTimeInStatus and calculateSLAStatus.              *)
(***************************************************************************)
\* Stands for the JavaScript value undefined where a text is expected; no
\* text of the model equals it.
Undefined == "<undefined>"

\* A timeString argument: a text, a null-like value (null, undefined), or a
\* truthy value that is not a string (a number).
Text(t) == [kind |-> "text", text |-> t]
NullTime == [kind |-> "null", text |-> <<>>]
NumberTime == [kind |-> "number", text |-> <<>>]

DashText == <<"-">>
NoDataText == <<"N", "o", " ", "d", "a", "t", "a">>

DigitChars == <<"0", "1", "2", "3", "4", "5", "6", "7", "8", "9">>

IsDigit(c) == \E n \in 1..10 : DigitChars[n] = c

DigitValue(c) == (CHOOSE n \in 1..10 : DigitChars[n] = c) - 1

\* Index of the last character of the run of digits that starts at p.
RECURSIVE DigitRunEnd(_, _)
DigitRunEnd(t, p) ==
  IF p < Len(t) /\ IsDigit(t[p + 1]) THEN DigitRunEnd(t, p + 1) ELSE p

\* parseInt of the digits t[p..q].
RECURSIVE parseInt(_, _, _)
parseInt(t, p, q) ==
  IF q < p THEN 0 ELSE parseInt(t, p, q - 1) * 10 + DigitValue(t[q])

\* parseInt(t.match(/(\d+)u/)?.[1] || 0), the search starting at p: the
\* leftmost run of digits directly followed by the letter u, else 0.
RECURSIVE MatchUnit(_, _, _)
MatchUnit(t, p, u) ==
  IF p > Len(t) THEN 0
  ELSE IF IsDigit(t[p]) /\ DigitRunEnd(t, p) < Len(t) /\ t[DigitRunEnd(t, p) + 1] = u
       THEN parseInt(t, p, DigitRunEnd(t, p))
       ELSE MatchUnit(t, p + 1, u)

HoursPerDay == 24
DaysPerWeek == 7

\* The body of the try block: String.prototype.match on a value that is
\* not a string raises a TypeError.
ParseBody(ts) ==
  IF ts.kind # "text"
  THEN [threw |-> TRUE, value |-> 0]
  ELSE [threw |-> FALSE,
        value |-> MatchUnit(ts.text, 1, "w") * DaysPerWeek * HoursPerDay
                  + MatchUnit(ts.text, 1, "d") * HoursPerDay
                  + MatchUnit(ts.text, 1, "h")]

\* if (!timeString || timeString === '-' || timeString === 'No data')
ParseGuard(ts) ==
  \/ ts.kind = "null"
  \/ ts.kind = "text" /\ ts.text \in {<<>>, DashText, NoDataText}

\* Variant of ParseOutcome without the try/catch around the body.
ParseOutcome_NoCatch(ts) ==
  IF ParseGuard(ts) THEN [threw |-> FALSE, value |-> 0] ELSE ParseBody(ts)

\* The outcome of parseTimeInStatus: whether the call raised, and the value
\* returned (in hours).
ParseOutcome(ts) ==
  IF ParseGuard(ts) THEN [threw |-> FALSE, value |-> 0]
  ELSE IF ParseBody(ts).threw THEN [threw |-> FALSE, value |-> 0]
  ELSE ParseBody(ts)

parseTimeInStatus(ts) == ParseOutcome(ts).value

\* status?.toLowerCase()
LowerStatus(st) == IF st = Undefined THEN Undefined ELSE toLowerCase(st)

\* getSLAThresholds(): the thresholds of window.slaConfig.
getSLAThresholds == thresholds

\* thresholds[status?.toLowerCase()] || thresholds.default
SLAThreshold(st) ==
  LET th == getSLAThresholds
      k == LowerStatus(st)
  IN IF k \in DOMAIN th /\ th[k] # 0 THEN th[k] ELSE th["default"]

Closed == [class |-> "closed", text |-> "Closed"]
AtRisk == [class |-> "at-risk", text |-> "At Risk"]
OnTrack == [class |-> "on-track", text |-> "On Track"]

\* Variant of calculateSLAStatus that tests the status without lower-casing.
calculateSLAStatus_CaseSensitive(st, ts) ==
  IF st \in COMPLETED_STATUSES THEN Closed
  ELSE IF parseTimeInStatus(ts) >= SLAThreshold(st) * HoursPerDay THEN AtRisk
  ELSE OnTrack

\* Variant of calculateSLAStatus that compares with > instead of >=.
calculateSLAStatus_Strict(st, ts) ==
  IF LowerStatus(st) \in COMPLETED_STATUSES THEN Closed
  ELSE IF parseTimeInStatus(ts) > SLAThreshold(st) * HoursPerDay THEN AtRisk
  ELSE OnTrack

calculateSLAStatus(st, ts) ==
  IF LowerStatus(st) \in COMPLETED_STATUSES THEN Closed
  ELSE IF parseTimeInStatus(ts) >= SLAThreshold(st) * HoursPerDay THEN AtRisk
  ELSE OnTrack

(***************************************************************************)
(* Arguments of the Time/SLA engine.                                       *)
(***************************************************************************)
MaxTokens == 3

Tokens ==
  { <<"2", "w">>, <<"3", "d">>, <<"5", "h">>, <<"1", "W">>, <<"4", "D">>,
    <<"1", "2", "d">>, <<"-", "5", "d">>, <<"x">> }

\* The tokens separated by single spaces.
RECURSIVE Join(_)
Join(toks) ==
  IF toks = <<>> THEN <<>>
  ELSE IF Len(toks) = 1 THEN toks[1]
  ELSE toks[1] \o <<" ">> \o Join(Tail(toks))

TokenSeqs == SeqsUpTo(Tokens, MaxTokens)

ParseArguments ==
  { Text(Join(toks)) : toks \in TokenSeqs }
  \cup { NullTime, NumberTime, Text(DashText), Text(NoDataText) }

SLAStatuses ==
  { "Done", "DONE", "done", "Released", "In Progress", "in progress", "Blocked",
    Undefined }

\* The fallback map of getSLAThresholds.
FallbackThresholds ==
  [x \in {"to do", "todo", "refinement", "refinement ready", "ready for refinement",
          "in progress", "in development", "paused", "default"} |->
     CASE x \in {"to do", "todo"} -> 15
       [] x \in {"refinement", "refinement ready", "ready for refinement"} -> 10
       [] x \in {"in progress", "in development", "paused"} -> 20
       [] OTHER -> 30]

\* The fallback map, and maps as local storage may hold.
ThresholdMaps ==
  { FallbackThresholds,
    [x \in {"in progress", "released", "default"} |->
       CASE x = "in progress" -> 1 [] x = "released" -> 1 [] OTHER -> 2],
    [x \in {"in progress", "default"} |->
       CASE x = "in progress" -> 0 [] OTHER -> 2] }

SLATimeArguments ==
  { Text(DashText), Text(<<"2", "3", "h">>), Text(<<"2", "4", "h">>),
    Text(<<"1", "d">>), Text(<<"2", "d">>), Text(<<"2", "0", "d">>),
    Text(<<"1", "9", "d", " ", "2", "3", "h">>), Text(<<"3", "w">>) }

NoOutcome == [threw |-> FALSE, value |-> 0]
NoSLAStatus == [class |-> "", text |-> ""]

\* The engine's functions are not being called.
SLAIdle ==
  /\ fpc = "idle"
  /\ statusArg = Undefined
  /\ timeString = NullTime
  /\ thresholds = FallbackThresholds
  /\ parsed = NoOutcome
  /\ slaStatus = NoSLAStatus

\* processMainCSV is not running.
MainIdle ==
  /\ records = <<>>
  /\ pc = "idle"
  /\ i = 1
  /\ issuesById = EmptyMap
  /\ epics = <<>>
  /\ epicsByKey = EmptyMap
  /\ linkedIssuesCount = 0
  /\ nonEpicIssues = <<>>
  /\ epicsByProject = EmptyMap
  /\ result = [epics |-> <<>>, childIssues |-> <<>>]

\* The overall figures of the guard and of the catch block of
\* calculateMetrics, for a list of n epics.
ZeroOverall(n) ==
  [totalEpics |-> n, totalCommitted |-> 0, totalCompleted |-> 0,
   realization |-> 0, avgCycleTime |-> 0, atRiskCount |-> 0,
   atRiskPercentage |-> 0]

NoMetrics == [threw |-> FALSE, overall |-> ZeroOverall(0), sprintData |-> <<>>]

\* mergeEpicData and calculateMetrics are not being called.
MergeIdle ==
  /\ epicsArg = <<>>
  /\ timeMap = EmptyMap
  /\ mpc = "idle"
  /\ mi = 1
  /\ mergedEpics = <<>>
  /\ metrics = NoMetrics

\* The null that findColumn returns when no header matches.
NoColumn == [isNull |-> TRUE, header |-> <<>>]

\* findColumn is not being called.
FindIdle ==
  /\ headersArg = <<>>
  /\ possibleNames = <<>>
  /\ cpc = "idle"
  /\ found = NoColumn

\* null where the parsed main CSV, the parsed time CSV, the merged epics,
\* the child issues or the metrics are expected.
NoMainData == [isNull |-> TRUE, headers |-> <<>>, records |-> <<>>]
NoTimeData == [isNull |-> TRUE, rows |-> <<>>]
NoEpicsData == [isNull |-> TRUE, epics |-> <<>>]
NoChildIssuesData == [isNull |-> TRUE, issues |-> <<>>]
NoMetricsData == [isNull |-> TRUE, metrics |-> NoMetrics]

\* SLAConfig.DEFAULT_THRESHOLDS
DEFAULT_THRESHOLDS ==
  [x \in {"to do", "todo", "researching", "ready for story refinement",
          "ready to develop", "in progress", "released", "enabled", "paused",
          "default"} |->
     CASE x \in {"to do", "todo"} -> 15
       [] x \in {"researching", "ready to develop"} -> 7
       [] x \in {"ready for story refinement", "released"} -> 10
       [] x \in {"in progress", "paused"} -> 20
       [] x = "enabled" -> 5
       [] OTHER -> 30]

\* No run has stored its epics yet.
NoRun ==
  [isNull |-> TRUE, main |-> NoMainData, time |-> NoTimeData,
   thresholds |-> DEFAULT_THRESHOLDS, epics |-> <<>>, merged |-> <<>>,
   overall |-> ZeroOverall(0)]

\* The application after construction, no handler running.
AppIdle ==
  /\ runs = EmptyMap
  /\ apc = "idle"
  /\ thisMainData = NoMainData
  /\ thisTimeData = NoTimeData
  /\ thisEpicsData = NoEpicsData
  /\ thisChildIssuesData = NoChildIssuesData
  /\ uiEpicsData = <<>>
  /\ metricsData = NoMetricsData
  /\ resultsVisible = FALSE
  /\ errorMessage = ""
  /\ previousRun = NoRun

InitParse ==
  /\ fpc = "parseTimeInStatus"
  /\ timeString \in ParseArguments
  /\ statusArg = Undefined
  /\ thresholds = FallbackThresholds
  /\ parsed = NoOutcome
  /\ slaStatus = NoSLAStatus

InitClassify ==
  /\ fpc = "calculateSLAStatus"
  /\ statusArg \in SLAStatuses
  /\ timeString \in SLATimeArguments
  /\ thresholds \in ThresholdMaps
  /\ parsed = NoOutcome
  /\ slaStatus = NoSLAStatus

InitSLA ==
  /\ MainIdle
  /\ MergeIdle
  /\ FindIdle
  /\ AppIdle
  /\ (InitParse \/ InitClassify)

\* A call of parseTimeInStatus(timeString).
CallParseTimeInStatus ==
  /\ fpc = "parseTimeInStatus"
  /\ parsed' = ParseOutcome(timeString)
  /\ fpc' = "parsed"
  /\ UNCHANGED <<statusArg, timeString, thresholds, slaStatus>>
  /\ UNCHANGED <<mainVars, mergeVars, findVars, appVars>>

\* A call of calculateSLAStatus(statusArg, timeString).
CallCalculateSLAStatus ==
  /\ fpc = "calculateSLAStatus"
  /\ slaStatus' = calculateSLAStatus(statusArg, timeString)
  /\ parsed' = ParseOutcome(timeString)
  /\ fpc' = "classified"
  /\ UNCHANGED <<statusArg, timeString, thresholds>>
  /\ UNCHANGED <<mainVars, mergeVars, findVars, appVars>>

NextSLA ==
  \/ CallParseTimeInStatus
  \/ CallCalculateSLAStatus

SpecSLA == InitSLA /\ [][NextSLA]_vars

(***************************************************************************)
(* findColumn.  Headers and candidate names are sequences of characters,   *)
(* so that lower-casing, stripping and the substring test are computed.    *)
(***************************************************************************)
MaxHeaders == 3

UpperChars == <<"A", "B", "C", "D", "E", "I", "K", "L", "N", "P", "S", "T", "Y">>
LowerChars == <<"a", "b", "c", "d", "e", "i", "k", "l", "n", "p", "s", "t", "y">>

\* One character of text.toLowerCase()
LowerChar(c) ==
  IF \E n \in 1..Len(UpperChars) : UpperChars[n] = c
  THEN LowerChars[CHOOSE n \in 1..Len(UpperChars) : UpperChars[n] = c]
  ELSE c

\* text.toLowerCase()
LowerText(t) == [n \in 1..Len(t) |-> LowerChar(t[n])]

\* The characters that /[\s_]/ matches.
SpaceOrUnderscore == {" ", "\t", "_"}

\* text.toLowerCase().replace(/[\s_]/g, '')
NormalizeHeader(t) == SelectSeq(LowerText(t), LAMBDA c : c \notin SpaceOrUnderscore)

\* text.includes(part)
Includes(text, part) ==
  \E p \in 0..(Len(text) - Len(part)) :
    \A n \in 1..Len(part) : text[p + n] = part[n]

\* normalizedHeaders.indexOf(target), searching from position n; 0 for -1.
RECURSIVE IndexOfHeader(_, _, _)
IndexOfHeader(headers, target, n) ==
  IF n > Len(headers) THEN 0
  ELSE IF NormalizeHeader(headers[n]) = target THEN n
  ELSE IndexOfHeader(headers, target, n + 1)

\* The inner loop: the first position from n whose normalized header
\* includes the target; 0 if none.
RECURSIVE IndexOfPartial(_, _, _)
IndexOfPartial(headers, target, n) ==
  IF n > Len(headers) THEN 0
  ELSE IF Includes(NormalizeHeader(headers[n]), target) THEN n
  ELSE IndexOfPartial(headers, target, n + 1)

Column(header) == [isNull |-> FALSE, header |-> header]

\* Variant of FindFrom that looks for an exact match of every candidate
\* before it tries any partial match.
RECURSIVE FindFrom_ExactFirst(_, _, _)
FindFrom_ExactFirst(headers, names, k) ==
  LET exact == { c \in k..Len(names) :
                   IndexOfHeader(headers, NormalizeHeader(names[c]), 1) # 0 }
      partial == { c \in k..Len(names) :
                     IndexOfPartial(headers, NormalizeHeader(names[c]), 1) # 0 }
      first(S) == CHOOSE c \in S : \A d \in S : c <= d
  IN IF exact # {}
     THEN Column(headers[IndexOfHeader(headers, NormalizeHeader(names[first(exact)]), 1)])
     ELSE IF partial # {}
     THEN Column(headers[IndexOfPartial(headers, NormalizeHeader(names[first(partial)]), 1)])
     ELSE NoColumn

\* The loop over possibleNames from candidate k on.
RECURSIVE FindFrom(_, _, _)
FindFrom(headers, names, k) ==
  IF k > Len(names) THEN NoColumn
  ELSE LET target == NormalizeHeader(names[k])
           index == IndexOfHeader(headers, target, 1)
           partial == IndexOfPartial(headers, target, 1)
       IN IF index # 0 THEN Column(headers[index])
          ELSE IF partial # 0 THEN Column(headers[partial])
          ELSE FindFrom(headers, names, k + 1)

\* findColumn(headers, possibleNames), headers being an array.
findColumn(headers, names) == FindFrom(headers, names, 1)

(***************************************************************************)
(* Arguments of findColumn.                                                *)
(***************************************************************************)
HKey == <<"K", "e", "y">>
HIssueKey == <<"I", "s", "s", "u", "e", " ", "k", "e", "y">>
HIssue_Key == <<"i", "s", "s", "u", "e", "_", "k", "e", "y">>
HEpicKey == <<"E", "p", "i", "c", " ", "K", "e", "y">>
HKEY == <<"K", "E", "Y">>
HIssueType == <<"I", "s", "s", "u", "e", " ", "T", "y", "p", "e">>
HIssueTypeJoined == <<"I", "s", "s", "u", "e", "T", "y", "p", "e">>
HType == <<"T", "y", "p", "e">>
HEpic == <<"E", "p", "i", "c">>
HEpicLink == <<"E", "p", "i", "c", " ", "L", "i", "n", "k">>

HeaderTexts ==
  { HKey, HIssueKey, HIssue_Key, HEpicKey, HKEY, HIssueType, HIssueTypeJoined,
    HType, HEpicLink, <<>> }

\* Candidate lists as processMainCSV passes them.
CandidateLists ==
  { <<HKey, HIssueKey>>, <<HIssueType, HIssueTypeJoined>>, <<HEpic, HEpicKey>>,
    <<HEpicLink>>, <<>> }

InitFind ==
  /\ MainIdle
  /\ SLAIdle
  /\ MergeIdle
  /\ AppIdle
  /\ headersArg \in SeqsUpTo(HeaderTexts, MaxHeaders)
  /\ possibleNames \in CandidateLists
  /\ cpc = "findColumn"
  /\ found = NoColumn

\* A call of findColumn(headersArg, possibleNames).
CallFindColumn ==
  /\ cpc = "findColumn"
  /\ found' = findColumn(headersArg, possibleNames)
  /\ cpc' = "returned"
  /\ UNCHANGED <<headersArg, possibleNames>>
  /\ UNCHANGED <<mainVars, slaVars, mergeVars, appVars>>

NextFind == CallFindColumn

SpecFind == InitFind /\ [][NextFind]_vars

(***************************************************************************)
(* mergeEpicData.  A timeData object is the sequence of its entries in     *)
(* key order (the header order of the time CSV); a cycle time text is the  *)
(* count of tenths that toFixed(1) prints, or the "-" sentinel.            *)
(***************************************************************************)
MaxMergeEpics == 3

\* text.toLowerCase().replace(/[\s_-]+/g, '')
NormalizeStatus(s) ==
  CASE s = "In Progress" -> "inprogress"
    [] s = "in_progress" -> "inprogress"
    [] s = "Code Review" -> "codereview"
    [] s = "Done" -> "done"
    [] s = "Blocked" -> "blocked"
    [] OTHER -> s

\* timeMap.get(epic.id) || {}
TimeDataOf(epic) ==
  IF MapHas(timeMap, epic.key) THEN timeMap[epic.key] ELSE <<>>

\* timeData[column] || ''
RECURSIVE ColumnValue(_, _)
ColumnValue(td, column) ==
  IF td = <<>> THEN <<>>
  ELSE IF Head(td).column = column THEN Head(td).value
  ELSE ColumnValue(Tail(td), column)

\* Object.keys(timeData).find(...): the position of the first non-empty key
\* that equals the status after normalisation, searching from n; 0 if none.
RECURSIVE FindStatusKey(_, _, _)
FindStatusKey(td, st, n) ==
  IF n > Len(td) THEN 0
  ELSE IF td[n].column # "" /\ NormalizeStatus(td[n].column) = NormalizeStatus(st)
       THEN n
       ELSE FindStatusKey(td, st, n + 1)

\* The find callback reads epic.status.toLowerCase() for the first non-empty
\* key: a TypeError when the epic has no status.
FindRaises(td, st) ==
  /\ st = Undefined
  /\ \E n \in 1..Len(td) : td[n].column # ""

\* The timeInStatus of the try block, for an epic that has a status.
TimeInStatus(td, st) ==
  LET k == FindStatusKey(td, st, 1)
  IN IF k # 0 /\ td[k].value # <<>> THEN td[k].value ELSE DashText

Abs(x) == IF x < 0 THEN -x ELSE x

\* (num / den).toFixed(1) as a count of tenths: the nearest tenth, the one
\* of larger magnitude when two are equally near.
ToFixed1(num, den) ==
  LET mag == (Abs(num) * 20 + Abs(den)) \div (2 * Abs(den))
  IN IF (num < 0) # (den < 0) THEN 0 - mag ELSE mag

\* The "-" sentinel of cycleTime.
NoCycleTime == [numeric |-> FALSE, tenths |-> 0]

\* Variant of CycleTimeText that formats a cycle time of 0 as well.
CycleTimeText_Always(hours) ==
  [numeric |-> TRUE, tenths |-> ToFixed1(hours, HoursPerDay)]

\* cycleTime > 0 ? cycleTime.toFixed(1) : '-'
CycleTimeText(hours) ==
  IF hours > 0
  THEN [numeric |-> TRUE, tenths |-> ToFixed1(hours, HoursPerDay)]
  ELSE NoCycleTime

\* { ...epic, timeInStatus, cycleTime, slaStatus }
MergedEpic(epic, tis, ct, sla) ==
  [f \in DOMAIN epic \cup {"timeInStatus", "cycleTime", "slaStatus"} |->
     CASE f = "timeInStatus" -> tis
       [] f = "cycleTime" -> ct
       [] f = "slaStatus" -> sla
       [] OTHER -> epic[f]]

UnknownSLA == [class |-> "on-track", text |-> "Unknown"]

\* The try block of the map callback: whether it raised, and the merged
\* epic it returns (not used when it raised).
MergeTry(epic) ==
  LET td == TimeDataOf(epic)
      tis == IF td # <<>> THEN TimeInStatus(td, epic.status) ELSE DashText
      cycleTime == parseTimeInStatus(Text(ColumnValue(td, "In Progress")))
                   + parseTimeInStatus(Text(ColumnValue(td, "Code Review")))
  IN IF td # <<>> /\ FindRaises(td, epic.status)
     THEN [threw |-> TRUE,
           value |-> MergedEpic(epic, DashText, NoCycleTime, NoSLAStatus)]
     ELSE [threw |-> FALSE,
           value |-> MergedEpic(epic, tis, CycleTimeText(cycleTime),
                                calculateSLAStatus(epic.status, Text(tis)))]

\* Variant of mergeEpic without the try/catch of the map callback.
mergeEpic_NoCatch(epic) == MergeTry(epic)

\* The map callback of mergeEpicData.
mergeEpic(epic) ==
  IF MergeTry(epic).threw
  THEN [threw |-> FALSE,
        value |-> MergedEpic(epic, DashText, NoCycleTime, UnknownSLA)]
  ELSE MergeTry(epic)

(***************************************************************************)
(* calculateMetrics.  Percentages and averages are the counts of tenths    *)
(* that toFixed(1) prints; in the bounded inputs no quotient lies halfway  *)
(* between two tenths except those that are exact in binary.               *)
(***************************************************************************)
\* epic.sprint || 'No Sprint'
SprintOf(epic) == IF epic.sprint = "" THEN "No Sprint" ELSE epic.sprint

\* Property names that every plain object inherits from Object.prototype:
\* sprints[name] is truthy for them although sprints has no such group.
ObjectPrototypeKeys ==
  {"constructor", "toString", "valueOf", "hasOwnProperty", "isPrototypeOf",
   "propertyIsEnumerable", "toLocaleString", "__proto__"}

\* sprints[sprint].epics.push(epic) raises a TypeError: the inherited
\* property is not a group and has no epics list.
GroupingRaises(es) ==
  \E n \in 1..Len(es) : SprintOf(es[n]) \in ObjectPrototypeKeys

\* Object.entries(sprints): the sprint names of the first n epics, in the
\* order in which their groups were created.
RECURSIVE SprintNames(_, _)
SprintNames(es, n) ==
  IF n = 0 THEN <<>>
  ELSE LET prev == SprintNames(es, n - 1)
       IN IF \E k \in 1..Len(prev) : prev[k] = SprintOf(es[n])
          THEN prev
          ELSE Append(prev, SprintOf(es[n]))

RECURSIVE SumOf(_)
SumOf(ns) == IF ns = <<>> THEN 0 ELSE Head(ns) + SumOf(Tail(ns))

\* Sum of epic.totalStoryPoints || 0.
Committed(es) == SumOf([n \in 1..Len(es) |-> es[n].totalStoryPoints])

\* Sum of epic.completedStoryPoints || 0.
Completed(es) == SumOf([n \in 1..Len(es) |-> es[n].completedStoryPoints])

\* The epics whose cycleTime is a number text.
WithCycleTime(es) == SelectSeq(es, LAMBDA e : e.cycleTime.numeric)

\* Sum of parseFloat(epic.cycleTime), in tenths of a day.
CycleSum(es) ==
  SumOf([n \in 1..Len(WithCycleTime(es)) |-> WithCycleTime(es)[n].cycleTime.tenths])

CycleCount(es) == Len(WithCycleTime(es))

AtRiskCount(es) == Len(SelectSeq(es, LAMBDA e : e.slaStatus.class = "at-risk"))

\* One entry of sprintData.
SprintRollup(es, name) ==
  LET group == SelectSeq(es, LAMBDA e : SprintOf(e) = name)
  IN [name |-> name,
      committed |-> Committed(group),
      completed |-> Completed(group),
      realization |->
        IF Committed(group) # 0
        THEN ToFixed1(Completed(group) * 100, Committed(group)) ELSE 0,
      avgCycleTime |->
        IF CycleCount(group) # 0
        THEN ToFixed1(CycleSum(group), 10 * CycleCount(group)) ELSE 0,
      epics |-> group]

\* The overall figures of the try block.
Overall(es) ==
  [totalEpics |-> Len(es),
   totalCommitted |-> Committed(es),
   totalCompleted |-> Completed(es),
   realization |->
     IF Committed(es) > 0 THEN ToFixed1(Completed(es) * 100, Committed(es)) ELSE 0,
   avgCycleTime |->
     IF CycleCount(es) > 0 THEN ToFixed1(CycleSum(es), 10 * CycleCount(es)) ELSE 0,
   atRiskCount |-> AtRiskCount(es),
   atRiskPercentage |->
     IF Len(es) > 0 THEN ToFixed1(AtRiskCount(es) * 100, Len(es)) ELSE 0]

\* The value the try block returns when nothing raises.
MetricsTry(es) ==
  [threw |-> FALSE,
   overall |-> Overall(es),
   sprintData |-> [k \in 1..Len(SprintNames(es, Len(es))) |->
                     SprintRollup(es, SprintNames(es, Len(es))[k])]]

\* The value of the catch block.
MinimalMetrics(es) ==
  [threw |-> FALSE, overall |-> ZeroOverall(Len(es)), sprintData |-> <<>>]

\* Variant of calculateMetrics whose catch block raises again.
calculateMetrics_Rethrow(es) ==
  IF GroupingRaises(es)
  THEN [threw |-> TRUE, overall |-> ZeroOverall(0), sprintData |-> <<>>]
  ELSE MetricsTry(es)

calculateMetrics(es) ==
  IF GroupingRaises(es) THEN MinimalMetrics(es) ELSE MetricsTry(es)

(***************************************************************************)
(* Arguments of mergeEpicData: epics as processMainCSV returns them, with  *)
(* the fields the merge and the metrics read, and the time map of          *)
(* processTimeCSV.  The epic at position n has the key A-n.                *)
(***************************************************************************)
EpicKeyAt(n) == <<"A", "-", DigitChars[n + 1]>>

Entry(column, value) == [column |-> column, value |-> value]

MergeShape(status, sprint, total, completed, timeData) ==
  [status |-> status, sprint |-> sprint, totalStoryPoints |-> total,
   completedStoryPoints |-> completed, timeData |-> timeData]

\* An epic with its row of the time CSV (no row when timeData is empty).
MergeShapes ==
  { MergeShape("In Progress", "Sprint 1", 3, 2,
               << Entry("In Progress", <<"3", "d">>),
                  Entry("Code Review", <<"2", "w">>) >>),
    MergeShape("In Progress", "Sprint 1", 3, 0, <<>>),
    MergeShape(Undefined, "", 0, 0, << Entry("In Progress", <<"3", "d">>) >>),
    MergeShape(Undefined, "Sprint 1", 2, 0, <<>>),
    MergeShape("Done", "Sprint 2", -2, -2, <<>>),
    MergeShape("In Progress", "Sprint 2", 0, 0,
               << Entry("in_progress", <<"4", "w">>),
                  Entry("Code Review", <<"3", "d">>),
                  Entry("Done", <<>>) >>),
    MergeShape("Blocked", "constructor", 2, 2, <<>>) }

EpicOf(shape, n) ==
  [key |-> EpicKeyAt(n), status |-> shape.status, sprint |-> shape.sprint,
   totalStoryPoints |-> shape.totalStoryPoints,
   completedStoryPoints |-> shape.completedStoryPoints]

\* processTimeCSV: one entry per row of the time CSV.
TimeMapOf(shapes) ==
  [k \in { EpicKeyAt(n) : n \in { m \in 1..Len(shapes) : shapes[m].timeData # <<>> } } |->
     shapes[CHOOSE n \in 1..Len(shapes) : EpicKeyAt(n) = k].timeData]

\* Threshold maps: the fallback map, and one as local storage may hold.
MergeThresholdMaps ==
  { FallbackThresholds,
    [x \in {"in progress", "default"} |->
       CASE x = "in progress" -> 1 [] OTHER -> 0] }

InitMerge ==
  /\ MainIdle
  /\ FindIdle
  /\ AppIdle
  /\ fpc = "idle"
  /\ statusArg = Undefined
  /\ timeString = NullTime
  /\ thresholds \in MergeThresholdMaps
  /\ parsed = NoOutcome
  /\ slaStatus = NoSLAStatus
  /\ \E shapes \in SeqsUpTo(MergeShapes, MaxMergeEpics) :
       /\ epicsArg = [n \in 1..Len(shapes) |-> EpicOf(shapes[n], n)]
       /\ timeMap = TimeMapOf(shapes)
  /\ mpc = "merge"
  /\ mi = 1
  /\ mergedEpics = <<>>
  /\ metrics = NoMetrics

\* One call of the epics.map callback; an exception that leaves it is
\* raised again by the catch block of mergeEpicData.
MergeEpic ==
  /\ mpc = "merge"
  /\ mi <= Len(epicsArg)
  /\ IF mergeEpic(epicsArg[mi]).threw
     THEN /\ mpc' = "mergeFailed"
          /\ mergedEpics' = <<>>
          /\ mi' = mi
     ELSE /\ mergedEpics' = Append(mergedEpics, mergeEpic(epicsArg[mi]).value)
          /\ mi' = mi + 1
          /\ mpc' = mpc
  /\ UNCHANGED <<epicsArg, timeMap, metrics>>
  /\ UNCHANGED <<mainVars, slaVars, findVars, appVars>>

\* mergeEpicData returns; the caller passes the result to calculateMetrics.
ReturnMerged ==
  /\ mpc = "merge"
  /\ mi > Len(epicsArg)
  /\ mpc' = "metrics"
  /\ UNCHANGED <<epicsArg, timeMap, mi, mergedEpics, metrics>>
  /\ UNCHANGED <<mainVars, slaVars, findVars, appVars>>

\* A call of calculateMetrics(mergedEpics).
CalculateMetrics ==
  /\ mpc = "metrics"
  /\ metrics' = calculateMetrics(mergedEpics)
  /\ mpc' = "done"
  /\ UNCHANGED <<epicsArg, timeMap, mi, mergedEpics>>
  /\ UNCHANGED <<mainVars, slaVars, findVars, appVars>>

NextMerge ==
  \/ MergeEpic
  \/ ReturnMerged
  \/ CalculateMetrics

SpecMerge == InitMerge /\ [][NextMerge]_vars

(***************************************************************************)
(* processMainCSV.                                                         *)
(***************************************************************************)
Init ==
  /\ records \in Inputs
  /\ pc = "pass1"
  /\ i = 1
  /\ issuesById = EmptyMap
  /\ epics = <<>>
  /\ epicsByKey = EmptyMap
  /\ linkedIssuesCount = 0
  /\ nonEpicIssues = <<>>
  /\ epicsByProject = EmptyMap
  /\ result = [epics |-> <<>>, childIssues |-> <<>>]
  /\ SLAIdle
  /\ MergeIdle
  /\ FindIdle
  /\ AppIdle

\* The epic object of pass 1; src is the index of the record it comes from.
EpicObj(r, src) ==
  [key |-> r.key, issueId |-> r.id, status |-> r.status,
   sprint |-> IF "sprint" \in DOMAIN r THEN r.sprint ELSE "",
   storyPoints |-> StoryPointsOf(r.points),
   children |-> <<>>,
   totalStoryPoints |-> StoryPointsOf(r.points),
   completedStoryPoints |->
     IF toLowerCase(r.status) \in COMPLETED_STATUSES
     THEN StoryPointsOf(r.points) ELSE 0,
   src |-> src]

\* One iteration of the first records.forEach.
Pass1Record ==
  /\ pc = "pass1"
  /\ i <= Len(records)
  /\ LET r == records[i]
     IN /\ issuesById' = IF r.id # "" THEN MapSet(issuesById, r.id, i) ELSE issuesById
        /\ IF toLowerCase(r.type) = "epic"
           THEN /\ epics' = Append(epics, EpicObj(r, i))
                /\ epicsByKey' = MapSet(epicsByKey, r.key, Len(epics) + 1)
           ELSE UNCHANGED <<epics, epicsByKey>>
  /\ i' = i + 1
  /\ UNCHANGED <<records, pc, linkedIssuesCount, nonEpicIssues, epicsByProject, result>>
  /\ UNCHANGED <<slaVars, mergeVars, findVars, appVars>>

EndPass1 ==
  /\ pc = "pass1"
  /\ i > Len(records)
  /\ pc' = "pass2"
  /\ i' = 1
  /\ UNCHANGED <<records, issuesById, epics, epicsByKey, linkedIssuesCount,
                 nonEpicIssues, epicsByProject, result>>
  /\ UNCHANGED <<slaVars, mergeVars, findVars, appVars>>

NoParent == <<>>

Method1(r) ==
  IF r.epicLink # NoKey /\ MapHas(epicsByKey, r.epicLink) THEN r.epicLink ELSE NoParent

Method2(r) ==
  IF r.epicKey # NoKey /\ MapHas(epicsByKey, r.epicKey) THEN r.epicKey ELSE NoParent

Method3(r) ==
  IF r.parent # "" /\ MapHas(issuesById, r.parent)
  THEN LET parentRecord == records[issuesById[r.parent]]
       IN IF toLowerCase(parentRecord.type) = "epic" THEN parentRecord.key ELSE NoParent
  ELSE NoParent

Method4(r) ==
  IF r.customParent # NoKey /\ MapHas(epicsByKey, r.customParent)
  THEN r.customParent ELSE NoParent

\* Variant of FindParentEpicKey that tries the Parent field first.
FindParentEpicKey_ParentFirst(r) ==
  IF Method3(r) # NoParent THEN Method3(r)
  ELSE IF Method1(r) # NoParent THEN Method1(r)
  ELSE IF Method2(r) # NoParent THEN Method2(r)
  ELSE Method4(r)

\* The chain of "if (!parentEpicKey && ...)" blocks.
FindParentEpicKey(r) ==
  IF Method1(r) # NoParent THEN Method1(r)
  ELSE IF Method2(r) # NoParent THEN Method2(r)
  ELSE IF Method3(r) # NoParent THEN Method3(r)
  ELSE Method4(r)

\* matchMethod of a child created in pass 2 (the field is not set there).
NoMethod == "undefined"

\* Variant of ChildIssue that records the issue's own key as parentEpicId.
ChildIssue_OwnKey(r, src, type, parentEpicKey, method) ==
  [key |-> r.key, type |-> type, status |-> r.status,
   storyPoints |-> StoryPointsOf(r.points),
   parentEpicId |-> r.key,
   isCompleted |-> toLowerCase(r.status) \in COMPLETED_STATUSES,
   matchMethod |-> method,
   src |-> src]

\* The child object; src is the index of the record it comes from.
ChildIssue(r, src, type, parentEpicKey, method) ==
  [key |-> r.key, type |-> type, status |-> r.status,
   storyPoints |-> StoryPointsOf(r.points),
   parentEpicId |-> parentEpicKey,
   isCompleted |-> toLowerCase(r.status) \in COMPLETED_STATUSES,
   matchMethod |-> method,
   src |-> src]

\* Variant of AttachChild that leaves completedStoryPoints alone.
AttachChild_TotalOnly(es, e, child) ==
  [es EXCEPT ![e] =
     [@ EXCEPT !.children = Append(@, child),
               !.totalStoryPoints = @ + child.storyPoints]]

\* children.push(child) and the story-point updates on epic number e.
AttachChild(es, e, child) ==
  [es EXCEPT ![e] =
     [@ EXCEPT !.children = Append(@, child),
               !.totalStoryPoints = @ + child.storyPoints,
               !.completedStoryPoints =
                 IF child.isCompleted THEN @ + child.storyPoints ELSE @]]

\* One iteration of the second records.forEach.
Pass2Record ==
  /\ pc = "pass2"
  /\ i <= Len(records)
  /\ LET r == records[i]
         parentEpicKey == FindParentEpicKey(r)
     IN IF toLowerCase(r.type) # "epic" /\ parentEpicKey # NoParent
           /\ MapHas(epicsByKey, parentEpicKey)
        THEN /\ epics' = AttachChild(epics, epicsByKey[parentEpicKey],
                           ChildIssue(r, i, toLowerCase(r.type), parentEpicKey, NoMethod))
             /\ linkedIssuesCount' = linkedIssuesCount + 1
        ELSE UNCHANGED <<epics, linkedIssuesCount>>
  /\ i' = i + 1
  /\ UNCHANGED <<records, pc, issuesById, epicsByKey, nonEpicIssues, epicsByProject, result>>
  /\ UNCHANGED <<slaVars, mergeVars, findVars, appVars>>

\* Variant of FewLinked that compares with <= instead of <.
FewLinked_AtMost == linkedIssuesCount * 10 <= Len(records)

\* linkedIssuesCount < records.length * 0.1
FewLinked == linkedIssuesCount * 10 < Len(records)

\* record => issueType && issueType !== 'epic' && record[keyCol]
KeptForDistribution(r) ==
  /\ toLowerCase(r.type) # ""
  /\ toLowerCase(r.type) # "epic"
  /\ r.key # NoKey

\* records.filter(...): the indices of the records kept, in input order.
RECURSIVE NonEpicIssuesUpTo(_)
NonEpicIssuesUpTo(n) ==
  IF n = 0 THEN <<>>
  ELSE IF KeptForDistribution(records[n])
       THEN Append(NonEpicIssuesUpTo(n - 1), n)
       ELSE NonEpicIssuesUpTo(n - 1)

NonEpicIssues == NonEpicIssuesUpTo(Len(records))

\* Stable insertion of epic number e into a list sorted by id (= key).
RECURSIVE InsertSorted(_, _, _)
InsertSorted(es, sorted, e) ==
  IF sorted = <<>> THEN <<e>>
  ELSE IF localeCompare(es[e].key, es[Head(sorted)].key) < 0
       THEN <<e>> \o sorted
       ELSE <<Head(sorted)>> \o InsertSorted(es, Tail(sorted), e)

\* list.sort((a, b) => a.id.localeCompare(b.id)) on a list of epic numbers.
RECURSIVE SortById(_, _)
SortById(es, list) ==
  IF list = <<>> THEN <<>>
  ELSE InsertSorted(es, SortById(es, SubSeq(list, 1, Len(list) - 1)), list[Len(list)])

\* Variant of EpicsOfProject that puts every epic in every project group.
EpicsOfProject_AllEpics(n, p) == [e \in 1..n |-> e]

RECURSIVE EpicsOfProject(_, _)
EpicsOfProject(n, p) ==
  IF n = 0 THEN <<>>
  ELSE IF getProjectKey(epics[n].key) = p
       THEN Append(EpicsOfProject(n - 1, p), n)
       ELSE EpicsOfProject(n - 1, p)

\* epicsByProject after grouping and the per-group sort.
EpicsByProject ==
  LET projects == { getProjectKey(epics[n].key) : n \in 1..Len(epics) } \ {NoProject}
  IN [p \in projects |-> SortById(epics, EpicsOfProject(Len(epics), p))]

\* The condition of line 473 holds: prepare the balanced distribution.
StartFallback ==
  /\ pc = "pass2"
  /\ i > Len(records)
  /\ FewLinked
  /\ nonEpicIssues' = NonEpicIssues
  /\ epicsByProject' = EpicsByProject
  /\ pc' = "fallback"
  /\ i' = 1
  /\ UNCHANGED <<records, issuesById, epics, epicsByKey, linkedIssuesCount, result>>
  /\ UNCHANGED <<slaVars, mergeVars, findVars, appVars>>

\* Variant of FewestChildren that compares with <= and so keeps the last minimum.
RECURSIVE FewestChildren_LastMin(_, _)
FewestChildren_LastMin(group, n) ==
  IF n = 0 THEN group[1]
  ELSE LET minEpic == FewestChildren_LastMin(group, n - 1)
       IN IF Len(epics[group[n]].children) <= Len(epics[minEpic].children)
          THEN group[n] ELSE minEpic

\* group.reduce((min, e) => e.children.length < min.children.length ? e : min, group[0])
\* Variant of FewestChildren that always takes the first epic of the group.
FewestChildren_First(group, n) == group[1]

RECURSIVE FewestChildren(_, _)
FewestChildren(group, n) ==
  IF n = 0 THEN group[1]
  ELSE LET minEpic == FewestChildren(group, n - 1)
       IN IF Len(epics[group[n]].children) < Len(epics[minEpic].children)
          THEN group[n] ELSE minEpic

\* One iteration of nonEpicIssues.forEach.
DistributeRecord ==
  /\ pc = "fallback"
  /\ i <= Len(nonEpicIssues)
  /\ LET src == nonEpicIssues[i]
         r == records[src]
         projectKey == getProjectKey(r.key)
     IN IF projectKey # NoProject /\ MapHas(epicsByProject, projectKey)
           /\ Len(epicsByProject[projectKey]) > 0
        THEN LET group == epicsByProject[projectKey]
                 targetEpic == FewestChildren(group, Len(group))
             IN epics' = AttachChild(epics, targetEpic,
                           ChildIssue(r, src, toLowerCase(r.type), epics[targetEpic].key,
                                      "balanced-distribution"))
        ELSE UNCHANGED epics
  /\ i' = i + 1
  /\ UNCHANGED <<records, pc, issuesById, epicsByKey, linkedIssuesCount,
                 nonEpicIssues, epicsByProject, result>>
  /\ UNCHANGED <<slaVars, mergeVars, findVars, appVars>>

RECURSIVE Flatten(_)
Flatten(es) ==
  IF es = <<>> THEN <<>> ELSE es[1].children \o Flatten(Tail(es))

AllEpicNumbers == [n \in 1..Len(epics) |-> n]

\* Variant of ReturnValue that omits the final sort.
ReturnValue_Unsorted == [epics |-> epics, childIssues |-> Flatten(epics)]

\* epics.sort(...) and the returned object.
ReturnValue ==
  LET order == SortById(epics, AllEpicNumbers)
      sorted == [n \in 1..Len(order) |-> epics[order[n]]]
  IN [epics |-> sorted, childIssues |-> Flatten(sorted)]

\* The loops are over: sort the epics and return.
ReturnResult ==
  /\ IF pc = "pass2"
     THEN i > Len(records) /\ ~FewLinked
     ELSE pc = "fallback" /\ i > Len(nonEpicIssues)
  /\ result' = ReturnValue
  /\ pc' = "done"
  /\ UNCHANGED <<records, i, issuesById, epics, epicsByKey, linkedIssuesCount,
                 nonEpicIssues, epicsByProject>>
  /\ UNCHANGED <<slaVars, mergeVars, findVars, appVars>>

Next ==
  \/ Pass1Record
  \/ EndPass1
  \/ Pass2Record
  \/ StartFallback
  \/ DistributeRecord
  \/ ReturnResult

Spec == Init /\ [][Next]_vars

(***************************************************************************)
(* The application: JiraEpicAnalyzer.analyzeData and reanalyzeWithNewSLA,  *)
(* SLAConfig.saveSettings and resetToDefaults, UIController.resetForm and  *)
(* displayResults.  An event handler runs to completion; analyzeData       *)
(* gives way to other handlers only while it awaits CSVParser.parseFile.   *)
(* The steps of processMainCSV, mergeEpicData and calculateMetrics are the *)
(* actions above; no handler starts while they run.  The files the user    *)
(* has chosen are an input of each click; they parse without error.  The   *)
(* results section is hidden when the page loads.  The demo loader, which  *)
(* follows analyzeData on fixed files, is left out.                        *)
(***************************************************************************)
MaxRuns == 2

HStatus == <<"S", "t", "a", "t", "u", "s">>
HSummary == <<"S", "u", "m", "m", "a", "r", "y">>

KEPIC1 == <<"E", "P", "I", "C", "-", "1">>
KTASK1 == <<"T", "A", "S", "K", "-", "1">>

\* The record r with a cell of the Sprint column.
WithSprint(r, sprint) ==
  [f \in DOMAIN r \cup {"sprint"} |-> IF f = "sprint" THEN sprint ELSE r[f]]

\* The value of CSVParser.parseFile for a main CSV and for a time CSV.
MainCSV(headers, recs) == [isNull |-> FALSE, headers |-> headers, records |-> recs]

TimeCSV(rows) == [isNull |-> FALSE, rows |-> rows]

TimeRow(key, cells) == [key |-> key, cells |-> cells]

\* Epic EPIC-1 (In Progress, 5 points) and task TASK-1 (Done, 3 points,
\* Epic Link = EPIC-1).
EndToEndMain ==
  MainCSV(<<HKey, HIssueType, HStatus, HSummary, HEpicLink>>,
          << WithSprint(EpicRecord(KEPIC1, "1", "In Progress", "5"), "Sprint 1"),
             IssueRecord(KTASK1, "Task", "Done", "3", KEPIC1, NoKey, "", NoKey) >>)

\* The file pairs the user may choose: the end-to-end scenario with 10 and
\* with 21 days in progress, a main CSV without epics, a main CSV whose
\* issue-type column cannot be resolved, and one whose key column cannot.
Uploads ==
  << [main |-> EndToEndMain,
      time |-> TimeCSV(<< TimeRow(KEPIC1, << Entry("In Progress", <<"1", "0", "d">>) >>) >>)],
     [main |-> EndToEndMain,
      time |-> TimeCSV(<< TimeRow(KEPIC1, << Entry("In Progress", <<"2", "1", "d">>) >>) >>)],
     [main |-> MainCSV(<<HKey, HIssueType, HStatus, HSummary>>,
                       << IssueRecord(KA2, "Story", "Done", "2", NoKey, NoKey, "", NoKey) >>),
      time |-> NoTimeData],
     [main |-> MainCSV(<<HKey, HType, HStatus, HSummary, HEpicLink>>,
                       << EpicRecord(KA1, "1", "In Progress", "2") >>),
      time |-> NoTimeData],
     [main |-> MainCSV(<<HIssueType, HStatus, HSummary>>,
                       << EpicRecord(KA1, "1", "In Progress", "2") >>),
      time |-> NoTimeData] >>

\* const keyCol = this.findColumn(headers, ['Key', 'Issue key'])
keyCol(headers) == findColumn(headers, <<HKey, HIssueKey>>)

\* const typeCol = this.findColumn(headers, ['Issue Type', 'IssueType'])
typeCol(headers) == findColumn(headers, <<HIssueType, HIssueTypeJoined>>)

\* The cells processMainCSV reads from a record: record[keyCol] and
\* record[typeCol] are undefined when the column is not resolved.
ReadRecord(r, headers) ==
  [r EXCEPT !.key = IF keyCol(headers).isNull THEN NoKey ELSE @,
            !.type = IF typeCol(headers).isNull THEN "" ELSE @]

ReadRecords(data) ==
  [n \in 1..Len(data.records) |-> ReadRecord(data.records[n], data.headers)]

requiredColumns == <<HKey, HIssueType, HStatus, HSummary>>

\* The required columns that no header includes after lower-casing.
missingColumns(headers) ==
  { c \in 1..Len(requiredColumns) :
      ~\E h \in 1..Len(headers) :
          Includes(LowerText(headers[h]), LowerText(requiredColumns[c])) }

\* Variant of ValidateRaises that checks the structure only.
ValidateRaises_StructureOnly(data) ==
  \/ data.isNull
  \/ Len(data.headers) = 0

\* validateData(data) throws.  Its field warning is replaced by the message
\* with which the handler ends.
ValidateRaises(data) ==
  \/ data.isNull
  \/ Len(data.headers) = 0
  \/ missingColumns(data.headers) # {}

\* processTimeCSV: the map of the first n rows; a row without key is
\* skipped, a later row of the same key replaces the earlier one.
RECURSIVE TimeMapUpTo(_, _)
TimeMapUpTo(rows, n) ==
  IF n = 0 THEN EmptyMap
  ELSE IF rows[n].key = NoKey THEN TimeMapUpTo(rows, n - 1)
  ELSE MapSet(TimeMapUpTo(rows, n - 1), rows[n].key, rows[n].cells)

\* Variant of processTimeCSV that returns an empty map.
processTimeCSV_Empty(data) == EmptyMap

\* let timeMap = new Map(); if (timeData) timeMap = processTimeCSV(timeData)
processTimeCSV(data) ==
  IF data.isNull THEN EmptyMap ELSE TimeMapUpTo(data.rows, Len(data.rows))

\* The value of the sla-in-progress input when the settings are saved; the
\* other inputs hold the defaults.
SLAInputs == {"5", "0", ""}

\* parseInt(value) || default
InputOr(value, default) ==
  IF value = "" THEN default
  ELSE IF parseInt(<<value>>, 1, 1) = 0 THEN default
  ELSE parseInt(<<value>>, 1, 1)

\* getUIValues()
getUIValues(inProgress) ==
  [x \in {"to do", "todo", "researching", "ready for story refinement",
          "refinement", "refinement ready", "ready to develop", "in progress",
          "in development", "released", "enabled", "paused", "default"} |->
     CASE x \in {"in progress", "in development"} ->
            InputOr(inProgress, DEFAULT_THRESHOLDS["in progress"])
       [] x \in {"refinement", "refinement ready"} ->
            DEFAULT_THRESHOLDS["ready for story refinement"]
       [] OTHER -> DEFAULT_THRESHOLDS[x]]

\* The analyze runs that await a file, as a bag of <<upload, stage>>.
BagCount(b, x) == IF x \in DOMAIN b THEN b[x] ELSE 0

RECURSIVE BagSize(_)
BagSize(b) ==
  IF DOMAIN b = {} THEN 0
  ELSE LET x == CHOOSE y \in DOMAIN b : TRUE
       IN b[x] + BagSize([y \in DOMAIN b \ {x} |-> b[y]])

BagAdd(b, x) == MapSet(b, x, BagCount(b, x) + 1)

BagRemove(b, x) ==
  IF b[x] = 1 THEN [y \in DOMAIN b \ {x} |-> b[y]] ELSE [b EXCEPT ![x] = @ - 1]

\* const epics = [] of processMainCSV: every call starts from an empty list,
\* whatever the application has stored.
\* Variant of freshEpics that continues with the stored epics.
freshEpics_Reused(stored) == stored.epics

freshEpics(stored) == <<>>

\* The parsed main CSV after processMainCSV has read it: no statement of the
\* pipeline writes to data.headers, data.records or a record.
\* Variant of mainDataAfter in which the pipeline consumes the records.
mainDataAfter_Consumed(data) == [data EXCEPT !.records = <<>>]

mainDataAfter(data) == data

\* DataProcessor.processMainCSV(data) is called.
StartProcess(data) ==
  /\ records' = ReadRecords(data)
  /\ pc' = "pass1"
  /\ i' = 1
  /\ issuesById' = EmptyMap
  /\ epics' = freshEpics(thisEpicsData)
  /\ epicsByKey' = EmptyMap
  /\ linkedIssuesCount' = 0
  /\ nonEpicIssues' = <<>>
  /\ epicsByProject' = EmptyMap
  /\ result' = [epics |-> <<>>, childIssues |-> <<>>]

\* The locals of processMainCSV are gone.
MainReturn ==
  /\ records' = <<>>
  /\ pc' = "idle"
  /\ i' = 1
  /\ issuesById' = EmptyMap
  /\ epics' = <<>>
  /\ epicsByKey' = EmptyMap
  /\ linkedIssuesCount' = 0
  /\ nonEpicIssues' = <<>>
  /\ epicsByProject' = EmptyMap
  /\ result' = [epics |-> <<>>, childIssues |-> <<>>]

\* The locals of mergeEpicData and calculateMetrics are gone.
MergeReturn ==
  /\ epicsArg' = <<>>
  /\ timeMap' = EmptyMap
  /\ mpc' = "idle"
  /\ mi' = 1
  /\ mergedEpics' = <<>>
  /\ metrics' = NoMetrics

\* The engine is not called from a handler's own steps.
SLAFrame == UNCHANGED <<fpc, statusArg, timeString, parsed, slaStatus>>

\* The part of analyzeData after the files are parsed (lines 125-135):
\* validateData, this.mainData and this.timeData, and the call of
\* processMainCSV; the catch block of line 198 when validateData throws.
ContinueAnalyze(u) ==
  IF ValidateRaises(Uploads[u].main)
  THEN /\ errorMessage' = "Analysis Error"
       /\ UNCHANGED <<apc, thisMainData, thisTimeData, mainVars>>
  ELSE /\ thisMainData' = Uploads[u].main
       /\ thisTimeData' = Uploads[u].time
       /\ StartProcess(Uploads[u].main)
       /\ apc' = "analyze"
       /\ errorMessage' = ""

\* A click on the analyze button (lines 58-95): without a main file a
\* message is shown; otherwise analyzeData awaits the parsing of the main
\* file.  u = 0 stands for an empty file input.
ClickAnalyze ==
  /\ apc = "idle"
  /\ \E u \in 0..Len(Uploads) :
       IF u = 0
       THEN /\ errorMessage' = "File Required"
            /\ runs' = runs
       ELSE /\ BagSize(runs) < MaxRuns
            /\ errorMessage' = ""
            /\ runs' = BagAdd(runs, <<u, "main">>)
  /\ UNCHANGED <<apc, thisMainData, thisTimeData, thisEpicsData, thisChildIssuesData,
                 uiEpicsData, metricsData, resultsVisible, previousRun>>
  /\ UNCHANGED <<mainVars, slaVars, mergeVars, findVars>>

\* The main file is parsed (line 99).  With a time file the run awaits its
\* parsing (line 112); without one it continues at once.
MainFileParsed ==
  /\ apc = "idle"
  /\ \E u \in 1..Len(Uploads) :
       /\ BagCount(runs, <<u, "main">>) > 0
       /\ IF Uploads[u].time.isNull
          THEN /\ runs' = BagRemove(runs, <<u, "main">>)
               /\ ContinueAnalyze(u)
          ELSE /\ runs' = BagAdd(BagRemove(runs, <<u, "main">>), <<u, "time">>)
               /\ errorMessage' = ""
               /\ UNCHANGED <<apc, thisMainData, thisTimeData, mainVars>>
  /\ UNCHANGED <<thisEpicsData, thisChildIssuesData, uiEpicsData, metricsData,
                 resultsVisible, previousRun>>
  /\ UNCHANGED <<slaVars, mergeVars, findVars>>

\* The time file is parsed (line 112) and the run continues.
TimeFileParsed ==
  /\ apc = "idle"
  /\ \E u \in 1..Len(Uploads) :
       /\ BagCount(runs, <<u, "time">>) > 0
       /\ runs' = BagRemove(runs, <<u, "time">>)
       /\ ContinueAnalyze(u)
  /\ UNCHANGED <<thisEpicsData, thisChildIssuesData, uiEpicsData, metricsData,
                 resultsVisible, previousRun>>
  /\ UNCHANGED <<slaVars, mergeVars, findVars>>

\* The call of mergeEpicData with the epics and the time map.
StartMerge ==
  /\ epicsArg' = result.epics
  /\ timeMap' = processTimeCSV(thisTimeData)
  /\ mpc' = "merge"
  /\ mi' = 1
  /\ mergedEpics' = <<>>
  /\ metrics' = NoMetrics

\* analyzeData after processMainCSV (lines 138-160): the child issues are
\* stored; without epics a warning ends the run.
AnalyzeProcessed ==
  /\ apc = "analyze"
  /\ pc = "done"
  /\ thisChildIssuesData' = [isNull |-> FALSE, issues |-> result.childIssues]
  /\ thisMainData' = mainDataAfter(thisMainData)
  /\ IF Len(result.epics) = 0
     THEN /\ errorMessage' = "No Epics Found"
          /\ apc' = "idle"
          /\ UNCHANGED mergeVars
     ELSE /\ StartMerge
          /\ UNCHANGED <<errorMessage, apc>>
  /\ MainReturn
  /\ UNCHANGED <<runs, thisTimeData, thisEpicsData, uiEpicsData, metricsData,
                 resultsVisible, previousRun>>
  /\ UNCHANGED <<slaVars, findVars>>

\* reanalyzeWithNewSLA after processMainCSV (lines 696-705).
ReanalyzeProcessed ==
  /\ apc = "reanalyze"
  /\ pc = "done"
  /\ thisMainData' = mainDataAfter(thisMainData)
  /\ StartMerge
  /\ MainReturn
  /\ UNCHANGED <<runs, apc, thisTimeData, thisEpicsData, thisChildIssuesData,
                 uiEpicsData, metricsData, resultsVisible, errorMessage, previousRun>>
  /\ UNCHANGED <<slaVars, findVars>>

\* The run of the pipeline that ends: its inputs and its results.
ThisRun ==
  [isNull |-> FALSE, main |-> thisMainData, time |-> thisTimeData,
   thresholds |-> thresholds, epics |-> epicsArg, merged |-> mergedEpics,
   overall |-> metrics.overall]

\* mergeEpicData raised, or analyzeData found the merged list empty
\* (line 172).
PipelineRaises ==
  \/ mpc = "mergeFailed"
  \/ apc = "analyze" /\ Len(mergedEpics) = 0

\* The end of analyzeData (lines 186-203) and of reanalyzeWithNewSLA (lines
\* 708-722): this.epicsData, displayResults and the message; the catch
\* block when the pipeline raised.
FinishRun ==
  /\ apc \in {"analyze", "reanalyze"}
  /\ mpc \in {"done", "mergeFailed"}
  /\ IF PipelineRaises
     THEN /\ errorMessage' = IF apc = "analyze" THEN "Analysis Error" ELSE "Reanalysis Error"
          /\ UNCHANGED <<thisEpicsData, uiEpicsData, metricsData, resultsVisible, previousRun>>
     ELSE /\ thisEpicsData' = [isNull |-> FALSE, epics |-> mergedEpics]
          /\ uiEpicsData' = mergedEpics
          /\ metricsData' = [isNull |-> FALSE, metrics |-> metrics]
          /\ resultsVisible' = TRUE
          /\ errorMessage' = IF apc = "analyze" THEN "Successfully analyzed" ELSE "Data reanalyzed"
          /\ previousRun' = ThisRun
  /\ apc' = "idle"
  /\ MergeReturn
  /\ UNCHANGED <<runs, thisMainData, thisTimeData, thisChildIssuesData>>
  /\ UNCHANGED <<mainVars, slaVars, findVars>>

\* The end of saveSettings and of resetToDefaults: reanalyzeWithNewSLA is
\* called when the application holds a non-empty epicsData, and returns at
\* once without mainData.
TriggerReanalyze ==
  IF ~thisEpicsData.isNull /\ Len(thisEpicsData.epics) > 0 /\ ~thisMainData.isNull
  THEN /\ StartProcess(thisMainData)
       /\ apc' = "reanalyze"
  ELSE UNCHANGED <<apc, mainVars>>

\* A click on the save button of the SLA settings.
SaveSettings ==
  /\ apc = "idle"
  /\ \E inProgress \in SLAInputs : thresholds' = getUIValues(inProgress)
  /\ errorMessage' = "SLA settings saved"
  /\ TriggerReanalyze
  /\ SLAFrame
  /\ UNCHANGED <<runs, thisMainData, thisTimeData, thisEpicsData, thisChildIssuesData,
                 uiEpicsData, metricsData, resultsVisible, previousRun>>
  /\ UNCHANGED <<mergeVars, findVars>>

\* A click on the reset button of the SLA settings.
ResetToDefaults ==
  /\ apc = "idle"
  /\ thresholds' = DEFAULT_THRESHOLDS
  /\ errorMessage' = "SLA settings reset"
  /\ TriggerReanalyze
  /\ SLAFrame
  /\ UNCHANGED <<runs, thisMainData, thisTimeData, thisEpicsData, thisChildIssuesData,
                 uiEpicsData, metricsData, resultsVisible, previousRun>>
  /\ UNCHANGED <<mergeVars, findVars>>

\* A click on the reset button of the form: UIController.resetForm().
ResetForm ==
  /\ apc = "idle"
  /\ resultsVisible' = FALSE
  /\ uiEpicsData' = <<>>
  /\ metricsData' = NoMetricsData
  /\ errorMessage' = ""
  /\ UNCHANGED <<runs, apc, thisMainData, thisTimeData, thisEpicsData,
                 thisChildIssuesData, previousRun>>
  /\ UNCHANGED <<mainVars, slaVars, mergeVars, findVars>>

\* The page is loaded: window.slaConfig holds the defaults, window.app the
\* fields of the constructor.
InitApp ==
  /\ MainIdle
  /\ MergeIdle
  /\ FindIdle
  /\ AppIdle
  /\ fpc = "idle"
  /\ statusArg = Undefined
  /\ timeString = NullTime
  /\ thresholds = DEFAULT_THRESHOLDS
  /\ parsed = NoOutcome
  /\ slaStatus = NoSLAStatus

NextApp ==
  \/ ClickAnalyze
  \/ MainFileParsed
  \/ TimeFileParsed
  \/ Pass1Record
  \/ EndPass1
  \/ Pass2Record
  \/ StartFallback
  \/ DistributeRecord
  \/ ReturnResult
  \/ AnalyzeProcessed
  \/ ReanalyzeProcessed
  \/ MergeEpic
  \/ ReturnMerged
  \/ CalculateMetrics
  \/ FinishRun
  \/ SaveSettings
  \/ ResetToDefaults
  \/ ResetForm

SpecApp == InitApp /\ [][NextApp]_vars

(***************************************************************************)
(* Properties of processMainCSV.                                           *)
(***************************************************************************)
Returned == pc = "done"

EpicNumbers(es) == 1..Len(es)

\* The positions <<e, j>> of all children held by the epics es.
ChildPositions(es) ==
  UNION { { <<e, j>> : j \in 1..Len(es[e].children) } : e \in EpicNumbers(es) }

ChildAt(es, q) == es[q[1]].children[q[2]]

Range(f) == { f[x] : x \in DOMAIN f }

\* C1: after processMainCSV no input record gives rise to more than one
\* ChildIssue: no record appears twice in the returned childIssues list.
C1_OneChildPerRecord ==
  Returned =>
    \A a, b \in 1..Len(result.childIssues) :
      a # b => result.childIssues[a].src # result.childIssues[b].src

\* C2: every returned ChildIssue's parentEpicId is the key of an epic of the
\* returned epic list, and the child is in that epic's children list.
C2_ParentIsReturnedEpic ==
  Returned =>
    \A a \in 1..Len(result.childIssues) :
      \E e \in EpicNumbers(result.epics) :
        /\ result.epics[e].key = result.childIssues[a].parentEpicId
        /\ result.childIssues[a] \in Range(result.epics[e].children)

\* C2 witness: a run returned children linked in pass 2 and children
\* attached by the balanced distribution.
C2_Witness ==
  /\ Returned
  /\ \E a, b \in 1..Len(result.childIssues) :
       /\ result.childIssues[a].matchMethod = NoMethod
       /\ result.childIssues[b].matchMethod = "balanced-distribution"

\* C3: every returned epic has totalStoryPoints >= its own storyPoints.
C3_TotalAtLeastOwn ==
  Returned =>
    \A e \in EpicNumbers(result.epics) :
      result.epics[e].totalStoryPoints >= result.epics[e].storyPoints

\* C4: completedStoryPoints <= totalStoryPoints for every epic, after pass 1,
\* after every attachment of pass 2 and after the fallback distribution.
C4_CompletedAtMostTotal ==
  /\ \A e \in EpicNumbers(epics) :
       epics[e].completedStoryPoints <= epics[e].totalStoryPoints
  /\ \A e \in EpicNumbers(result.epics) :
       result.epics[e].completedStoryPoints <= result.epics[e].totalStoryPoints

\* C5: the returned epic list never holds two epics with the same key.
C5_UniqueEpicKeys ==
  Returned =>
    \A a, b \in EpicNumbers(result.epics) :
      a # b => result.epics[a].key # result.epics[b].key

\* The case of C6: a non-epic record whose Epic-Link value is an existing
\* epic key and whose Parent value resolves by ID to a different epic.
EpicLinkAndParentDiffer(r) ==
  /\ toLowerCase(r.type) # "epic"
  /\ r.epicLink \in { epics[e].key : e \in EpicNumbers(epics) }
  /\ \E n \in 1..Len(records) :
       /\ r.parent # ""
       /\ records[n].id = r.parent
       /\ \A m \in (n + 1)..Len(records) : records[m].id # r.parent
       /\ toLowerCase(records[n].type) = "epic"
       /\ records[n].key # r.epicLink

\* C6: in pass 2 Epic-Link is tried before Parent: a record with a valid
\* Epic-Link value and a Parent value resolving to a different epic is
\* attached to the Epic-Link epic and to no other.
C6_EpicLinkWins ==
  pc = "pass2" =>
    \A k \in 1..(i - 1) :
      EpicLinkAndParentDiffer(records[k]) =>
        \E q \in ChildPositions(epics) :
          /\ ChildAt(epics, q).src = k
          /\ ChildAt(epics, q).parentEpicId = records[k].epicLink
          /\ epics[q[1]].key = records[k].epicLink
          /\ \A p \in ChildPositions(epics) : ChildAt(epics, p).src = k => p = q

\* C6 witness: pass 2 has processed such a record.
C6_Witness ==
  /\ pc = "pass2"
  /\ \E k \in 1..(i - 1) : EpicLinkAndParentDiffer(records[k])

\* C7: the fallback runs only when the linked count is strictly below 10%
\* of the record count; otherwise no record is attached beyond those linked
\* by strategies 1-4.
C7_FallbackOnlyBelowTenPercent ==
  /\ pc = "fallback" => linkedIssuesCount * 10 < Len(records)
  /\ (Returned /\ linkedIssuesCount * 10 >= Len(records)) =>
       /\ Len(result.childIssues) = linkedIssuesCount
       /\ \A a \in 1..Len(result.childIssues) :
            result.childIssues[a].matchMethod # "balanced-distribution"

\* A record the distribution would take: non-epic, typed, keyed, and with
\* the project key of some epic.
Distributable(r) ==
  /\ r.type \notin {"", "Epic"}
  /\ r.key # NoKey
  /\ getProjectKey(r.key) # NoProject
  /\ \E e \in EpicNumbers(epics) : getProjectKey(epics[e].key) = getProjectKey(r.key)

\* C7 witness: a run with exactly 10% of the records linked returned, and
\* an unlinked distributable record was left unattached.
C7_Witness ==
  /\ Returned
  /\ linkedIssuesCount >= 1
  /\ linkedIssuesCount * 10 = Len(records)
  /\ \E k \in 1..Len(records) :
       /\ Distributable(records[k])
       /\ \A a \in 1..Len(result.childIssues) : result.childIssues[a].src # k

\* C8: one step of the fallback attaches the record to the epic of its
\* project group with the fewest children at that moment, the smallest key
\* winning a tie; a record without a group is attached nowhere.
C8_FewestChildrenSmallestKey ==
  [][ (pc = "fallback" /\ i <= Len(nonEpicIssues)) =>
        LET src == nonEpicIssues[i]
            p == getProjectKey(records[src].key)
            G == { e \in EpicNumbers(epics) : getProjectKey(epics[e].key) = p }
        IN IF p # NoProject /\ G # {}
           THEN \E t \in G :
                  /\ \A e \in G :
                       /\ Len(epics[t].children) <= Len(epics[e].children)
                       /\ Len(epics[t].children) = Len(epics[e].children)
                            => localeCompare(epics[t].key, epics[e].key) <= 0
                  /\ Len(epics'[t].children) = Len(epics[t].children) + 1
                  /\ epics'[t].children[Len(epics'[t].children)].src = src
                  /\ \A e \in EpicNumbers(epics) \ {t} : epics'[e] = epics[e]
           ELSE epics' = epics ]_vars

\* C8 witness: two epics of one project, given in descending key order, have
\* both received a child from the distribution.
C8_Witness ==
  /\ pc = "fallback"
  /\ \E a, b \in EpicNumbers(epics) :
       /\ a < b
       /\ getProjectKey(epics[a].key) = getProjectKey(epics[b].key)
       /\ localeCompare(epics[a].key, epics[b].key) > 0
       /\ \E c \in Range(epics[a].children) : c.matchMethod = "balanced-distribution"
       /\ \E c \in Range(epics[b].children) : c.matchMethod = "balanced-distribution"

\* C9: the fallback attaches a record only to an epic whose key has the
\* record's project-key prefix; a record whose prefix matches no epic is
\* not attached by the fallback.
C9_SameProjectOnly ==
  \A q \in ChildPositions(epics) :
    ChildAt(epics, q).matchMethod = "balanced-distribution" =>
      /\ getProjectKey(ChildAt(epics, q).key) # NoProject
      /\ getProjectKey(ChildAt(epics, q).key) = getProjectKey(epics[q[1]].key)

\* C9 witness: the distribution has attached a record, has passed over a
\* record of a project without epics, and epics of two projects exist.
C9_Witness ==
  /\ Returned
  /\ \E q \in ChildPositions(epics) : ChildAt(epics, q).matchMethod = "balanced-distribution"
  /\ \E a, b \in EpicNumbers(epics) :
       getProjectKey(epics[a].key) # getProjectKey(epics[b].key)
  /\ \E n \in 1..Len(nonEpicIssues) :
       /\ getProjectKey(records[nonEpicIssues[n]].key) # NoProject
       /\ ~Distributable(records[nonEpicIssues[n]])

\* Number of children held by the epics before epic e.
RECURSIVE ChildOffset(_, _)
ChildOffset(es, e) ==
  IF e = 1 THEN 0 ELSE ChildOffset(es, e - 1) + Len(es[e - 1].children)

Classified == fpc = "classified"

\* Spellings of completed statuses among the arguments.
CompletedSpellings == {"Done", "DONE", "done", "Released"}

\* C11: calculateSLAStatus returns class "closed" for every status that is
\* a completed status in any letter case, for every time text and threshold
\* map, also when the parsed days exceed every threshold.
C11_CompletedIsClosed ==
  (Classified /\ statusArg \in CompletedSpellings) => slaStatus.class = "closed"

\* C11 witness: an upper-case completed status was classified with a time
\* above every threshold of the map.
C11_Witness ==
  /\ Classified
  /\ statusArg = "DONE"
  /\ \A k \in DOMAIN thresholds : parsed.value > thresholds[k] * HoursPerDay

\* The threshold the code applies: the entry of the lower-cased status when
\* it is listed and not zero, else the default entry.
AppliedThreshold ==
  IF statusArg # Undefined /\ toLowerCase(statusArg) \in DOMAIN thresholds
     /\ thresholds[toLowerCase(statusArg)] # 0
  THEN thresholds[toLowerCase(statusArg)]
  ELSE thresholds["default"]

\* C12: for a status that is not completed the class is "at-risk" exactly
\* when the parsed days are >= the applied threshold, else "on-track"; days
\* equal to the threshold are at risk.
C12_AtRiskFromThreshold ==
  (Classified /\ statusArg \notin CompletedSpellings) =>
    /\ parsed.value >= AppliedThreshold * HoursPerDay => slaStatus = AtRisk
    /\ parsed.value < AppliedThreshold * HoursPerDay => slaStatus = OnTrack

\* C12 witness: a status that is not completed was classified with a time
\* exactly at its threshold.
C12_Witness ==
  /\ Classified
  /\ statusArg = "In Progress"
  /\ parsed.value = AppliedThreshold * HoursPerDay
  /\ slaStatus = AtRisk

\* The threshold of C13: the entry of the lower-cased status whenever the
\* map lists it, whatever its value, else the default entry.
ListedThreshold ==
  IF statusArg # Undefined /\ toLowerCase(statusArg) \in DOMAIN thresholds
  THEN thresholds[toLowerCase(statusArg)]
  ELSE thresholds["default"]

\* C13: for a status that is not completed, the threshold used is the map's
\* entry for the lower-cased status whenever the map lists the status, for
\* every integer value of the entry, and the default entry otherwise.
C13_ListedEntryIsUsed ==
  (Classified /\ statusArg \notin CompletedSpellings) =>
    (slaStatus = AtRisk <=> parsed.value >= ListedThreshold * HoursPerDay)

Parsed == fpc = "parsed"

\* The text holds a run of digits directly followed by w, d or h.
HasUnitPattern(t) ==
  \E p \in 1..(Len(t) - 1) : IsDigit(t[p]) /\ t[p + 1] \in {"w", "d", "h"}

\* C15: parseTimeInStatus never raises, returns 0 for empty, null-like and
\* unparseable input, and never returns a negative value.
C15_ParseIsTotal ==
  Parsed =>
    /\ ~parsed.threw
    /\ parsed.value >= 0
    /\ (timeString.kind # "text" \/ ~HasUnitPattern(timeString.text)) => parsed.value = 0

\* C15 witness: parseTimeInStatus was called with a value that is not a
\* string, on which match raises inside the try block.
C15_Witness ==
  /\ Parsed
  /\ timeString = NumberTime

\* A token of the form N followed by one of the unit letters in either case.
IsComponent(tok) ==
  /\ Len(tok) >= 2
  /\ \A p \in 1..(Len(tok) - 1) : IsDigit(tok[p])
  /\ tok[Len(tok)] \in {"w", "W", "d", "D", "h", "H"}

\* Hours in one unit of the component.
ComponentFactor(tok) ==
  CASE tok[Len(tok)] \in {"w", "W"} -> 168
    [] tok[Len(tok)] \in {"d", "D"} -> 24
    [] OTHER -> 1

RECURSIVE ComponentHours(_)
ComponentHours(toks) ==
  IF toks = <<>> THEN 0
  ELSE parseInt(toks[1], 1, Len(toks[1]) - 1) * ComponentFactor(toks[1])
       + ComponentHours(Tail(toks))

\* C16: for a text made of any subset of the components Nw, Nd, Nh in any
\* order, the unit letters in either case, parseTimeInStatus returns
\* weeks*168 + days*24 + hours (counted in hours).
C16_SumOfComponents ==
  Parsed =>
    \A toks \in TokenSeqs :
      ( /\ timeString = Text(Join(toks))
        /\ \A n \in 1..Len(toks) : IsComponent(toks[n])
        /\ \A n, m \in 1..Len(toks) :
             n # m => ComponentFactor(toks[n]) # ComponentFactor(toks[m]) )
      => parsed.value = ComponentHours(toks)

(***************************************************************************)
(* Properties of mergeEpicData and calculateMetrics.                       *)
(***************************************************************************)
MergeReturned == mpc \in {"metrics", "done"}

MetricsReturned == mpc = "done"

SameEpic(m, epic) ==
  /\ m.key = epic.key
  /\ m.status = epic.status
  /\ m.sprint = epic.sprint
  /\ m.totalStoryPoints = epic.totalStoryPoints
  /\ m.completedStoryPoints = epic.completedStoryPoints

\* C14: mergeEpicData never raises because of one epic; when it has
\* returned, the result has one entry per input epic in input order, an epic
\* whose processing raised carries timeInStatus "-", cycleTime "-" and
\* slaStatus {on-track, "Unknown"}, and every other epic is merged normally.
C14_PerEpicFailureIsolated ==
  /\ mpc # "mergeFailed"
  /\ MergeReturned =>
       /\ Len(mergedEpics) = Len(epicsArg)
       /\ \A n \in 1..Len(epicsArg) :
            /\ SameEpic(mergedEpics[n], epicsArg[n])
            /\ IF MergeTry(epicsArg[n]).threw
               THEN /\ mergedEpics[n].timeInStatus = DashText
                    /\ mergedEpics[n].cycleTime = NoCycleTime
                    /\ mergedEpics[n].slaStatus = UnknownSLA
               ELSE mergedEpics[n] = MergeTry(epicsArg[n]).value

\* An epic whose processing raised, between two epics merged with time data.
C14_Witness ==
  /\ MergeReturned
  /\ Len(epicsArg) = 3
  /\ MergeTry(epicsArg[2]).threw
  /\ ~MergeTry(epicsArg[1]).threw
  /\ ~MergeTry(epicsArg[3]).threw
  /\ mergedEpics[1].timeInStatus # DashText
  /\ mergedEpics[3].cycleTime.numeric

\* C17: with an empty time map every returned epic has timeInStatus "-" and
\* cycleTime "-", and every epic that is not completed and whose threshold
\* is above 0 is on-track.
C17_EmptyTimeMap ==
  (MergeReturned /\ DOMAIN timeMap = {}) =>
    \A n \in 1..Len(mergedEpics) :
      /\ mergedEpics[n].timeInStatus = DashText
      /\ mergedEpics[n].cycleTime = NoCycleTime
      /\ (/\ LowerStatus(mergedEpics[n].status) \notin COMPLETED_STATUSES
          /\ SLAThreshold(mergedEpics[n].status) > 0)
         => mergedEpics[n].slaStatus = OnTrack

\* An empty time map with an epic in progress, an epic without status and a
\* completed epic.
C17_Witness ==
  /\ MergeReturned
  /\ DOMAIN timeMap = {}
  /\ \E n \in 1..Len(mergedEpics) :
       mergedEpics[n].status = "In Progress" /\ mergedEpics[n].slaStatus = OnTrack
  /\ \E n \in 1..Len(mergedEpics) :
       mergedEpics[n].status = Undefined /\ mergedEpics[n].slaStatus = OnTrack
  /\ \E n \in 1..Len(mergedEpics) : mergedEpics[n].slaStatus = Closed

\* The positions <<group, place>> of the epics listed in sprintData.
GroupPositions(sd) ==
  { p \in (1..Len(sd)) \X (1..Len(mergedEpics)) : p[2] <= Len(sd[p[1]].epics) }

\* C18: every epic is in exactly one sprint group, that of its sprint or of
\* "No Sprint"; each group's committed and completed are the sums over its
\* epics; the overall totals are the sums of the groups' values.
C18_EveryEpicInOneGroup ==
  MetricsReturned =>
    LET sd == metrics.sprintData
    IN /\ \A n \in 1..Len(mergedEpics) :
            /\ Cardinality({ p \in GroupPositions(sd) :
                               sd[p[1]].epics[p[2]].key = mergedEpics[n].key }) = 1
            /\ \A p \in GroupPositions(sd) :
                 sd[p[1]].epics[p[2]].key = mergedEpics[n].key
                   => sd[p[1]].name = SprintOf(mergedEpics[n])
       /\ \A g \in 1..Len(sd) :
            /\ sd[g].committed = Committed(sd[g].epics)
            /\ sd[g].completed = Completed(sd[g].epics)
       /\ metrics.overall.totalCommitted = SumOf([g \in 1..Len(sd) |-> sd[g].committed])
       /\ metrics.overall.totalCompleted = SumOf([g \in 1..Len(sd) |-> sd[g].completed])

\* completed / committed * 100, 0 when committed is 0, to one decimal place.
Realization(completed, committed) ==
  IF committed = 0 THEN 0 ELSE ToFixed1(completed * 100, committed)

\* C19: overall and per sprint, realization is 0 when committed is 0 and
\* completed/committed*100 otherwise; avgCycleTime is 0 when no epic of the
\* group has a numeric cycle time; atRiskPercentage is 0 for an empty list;
\* the call does not raise.
C19_GuardedFigures ==
  MetricsReturned =>
    LET sd == metrics.sprintData
        o == metrics.overall
    IN /\ ~metrics.threw
       /\ o.realization = Realization(o.totalCompleted, o.totalCommitted)
       /\ \A g \in 1..Len(sd) :
            /\ sd[g].realization = Realization(sd[g].completed, sd[g].committed)
            /\ CycleCount(sd[g].epics) = 0 => sd[g].avgCycleTime = 0
       /\ CycleCount(mergedEpics) = 0 => o.avgCycleTime = 0
       /\ Len(mergedEpics) = 0 => o.atRiskPercentage = 0

\* The Object.prototype collision: the failure inside calculateMetrics.
MetricsFailed == MetricsReturned /\ GroupingRaises(mergedEpics)

\* C20 as stated: an internal failure of calculateMetrics is raised again
\* to the caller.
C20_FailureIsReraised ==
  MetricsFailed => metrics.threw

\* C20 amended: on an internal failure calculateMetrics does not raise; it
\* returns the minimal metrics: totalEpics the length of the input, every
\* other overall figure zero, and an empty sprintData.
C20_FailureGivesMinimalMetrics ==
  MetricsFailed =>
    /\ ~metrics.threw
    /\ metrics.overall = ZeroOverall(Len(mergedEpics))
    /\ metrics.sprintData = <<>>

\* A failure inside calculateMetrics on a list of several epics with points.
C20_Witness ==
  /\ MetricsFailed
  /\ Len(mergedEpics) >= 2
  /\ Committed(mergedEpics) > 0

(***************************************************************************)
(* Further properties of processMainCSV.                                   *)
(***************************************************************************)
\* The story points of the children of epic e, or of the completed ones.
ChildPoints(e, completedOnly) ==
  SumOf([c \in 1..Len(e.children) |->
           IF completedOnly /\ ~e.children[c].isCompleted
           THEN 0 ELSE e.children[c].storyPoints])

\* C27: for every returned epic, totalStoryPoints is its own storyPoints
\* plus those of its children, and completedStoryPoints is its own
\* storyPoints if its status is completed plus those of its completed
\* children.
C27_PointsAreSumsOverChildren ==
  Returned =>
    \A n \in 1..Len(result.epics) :
      LET e == result.epics[n]
      IN /\ e.totalStoryPoints = e.storyPoints + ChildPoints(e, FALSE)
         /\ e.completedStoryPoints =
              (IF toLowerCase(e.status) \in COMPLETED_STATUSES THEN e.storyPoints ELSE 0)
              + ChildPoints(e, TRUE)

\* A returned epic with a completed child that has points, attached by the
\* distribution.
C27_Witness ==
  /\ Returned
  /\ \E n \in 1..Len(result.epics) :
       \E c \in 1..Len(result.epics[n].children) :
         /\ result.epics[n].children[c].isCompleted
         /\ result.epics[n].children[c].storyPoints # 0
         /\ result.epics[n].children[c].matchMethod = "balanced-distribution"

\* C30: when the fallback ran and strategies 1-4 linked nothing, the child
\* counts of two returned epics of one project differ by at most 1.
C30_BalancedWithinProject ==
  (Returned /\ FewLinked /\ linkedIssuesCount = 0) =>
    \A a, b \in 1..Len(result.epics) :
      (/\ getProjectKey(result.epics[a].key) # NoProject
       /\ getProjectKey(result.epics[a].key) = getProjectKey(result.epics[b].key))
      => Len(result.epics[a].children) <= Len(result.epics[b].children) + 1

\* Two epics of one project that both received a child from the
\* distribution.
C30_Witness ==
  /\ Returned
  /\ FewLinked
  /\ linkedIssuesCount = 0
  /\ \E a, b \in 1..Len(result.epics) :
       /\ a # b
       /\ getProjectKey(result.epics[a].key) # NoProject
       /\ getProjectKey(result.epics[a].key) = getProjectKey(result.epics[b].key)
       /\ Len(result.epics[a].children) >= 1
       /\ Len(result.epics[b].children) >= 1

(***************************************************************************)
(* Properties of findColumn.                                               *)
(***************************************************************************)
\* Candidate c matches header h exactly, or as a substring, after both are
\* lower-cased and stripped of whitespace and underscores.
ExactMatch(c, h) == NormalizeHeader(h) = NormalizeHeader(c)

PartialMatch(c, h) == Includes(NormalizeHeader(h), NormalizeHeader(c))

Least(S) == CHOOSE n \in S : \A m \in S : n <= m

\* C26: findColumn returns null when no candidate matches a header;
\* otherwise, for the first candidate in list order that matches any header,
\* it returns the first header equal to it, or, if none is equal, the first
\* header that contains it.
C26_FirstCandidateExactThenPartial ==
  cpc = "returned" =>
    LET H == 1..Len(headersArg)
        matching == { c \in 1..Len(possibleNames) :
                        \E h \in H : PartialMatch(possibleNames[c], headersArg[h]) }
    IN IF matching = {} THEN found = NoColumn
       ELSE LET c == possibleNames[Least(matching)]
                exact == { h \in H : ExactMatch(c, headersArg[h]) }
                partial == { h \in H : PartialMatch(c, headersArg[h]) }
            IN /\ ~found.isNull
               /\ found.header = headersArg[IF exact # {} THEN Least(exact)
                                            ELSE Least(partial)]

\* The first candidate matches a header only as a substring while the
\* second candidate equals a later header; the partial match is returned.
C26_Witness ==
  /\ cpc = "returned"
  /\ Len(possibleNames) = 2
  /\ Len(headersArg) >= 2
  /\ ~\E h \in 1..Len(headersArg) : ExactMatch(possibleNames[1], headersArg[h])
  /\ PartialMatch(possibleNames[1], headersArg[1])
  /\ ExactMatch(possibleNames[2], headersArg[2])
  /\ found = Column(headersArg[1])

(***************************************************************************)
(* Properties of the application (specification SpecApp).                  *)
(***************************************************************************)

\* C25: End to end, for the main CSV with epic EPIC-1 (In Progress, 5
\* points) and task TASK-1 (Epic Link = EPIC-1, Done, 3 points) and
\* thresholds with in progress = 20, the resulting epic has
\* totalStoryPoints 8 and completedStoryPoints 3; with "In Progress" = "10d"
\* it is on-track with cycleTime "10.0", and with "21d" it is at-risk and
\* metrics.overall.realization is 37.5.
C25_EndToEnd ==
  (/\ ~previousRun.isNull
   /\ previousRun.main = EndToEndMain
   /\ previousRun.thresholds["in progress"] = 20)
  => /\ Len(previousRun.merged) = 1
     /\ previousRun.merged[1].key = KEPIC1
     /\ previousRun.merged[1].totalStoryPoints = 8
     /\ previousRun.merged[1].completedStoryPoints = 3
     /\ previousRun.time = Uploads[1].time
        => /\ previousRun.merged[1].slaStatus = OnTrack
           /\ previousRun.merged[1].cycleTime = [numeric |-> TRUE, tenths |-> 100]
     /\ previousRun.time = Uploads[2].time
        => /\ previousRun.merged[1].slaStatus = AtRisk
           /\ previousRun.overall.realization = 375

\* The run with "21d" has ended under in progress = 20 and is displayed.
C25_Witness ==
  /\ ~previousRun.isNull
  /\ previousRun.main = EndToEndMain
  /\ previousRun.time = Uploads[2].time
  /\ previousRun.thresholds["in progress"] = 20
  /\ previousRun.merged[1].slaStatus = AtRisk
  /\ uiEpicsData = previousRun.merged
  /\ resultsVisible

\* The step in which the analyze run on upload u goes on after its last
\* file is parsed.
RunContinues(u) ==
  \/ BagCount(runs', <<u, "time">>) < BagCount(runs, <<u, "time">>)
  \/ /\ BagCount(runs', <<u, "main">>) < BagCount(runs, <<u, "main">>)
     /\ BagCount(runs', <<u, "time">>) = BagCount(runs, <<u, "time">>)

IdentityColumnsResolved(headers) ==
  /\ ~keyCol(headers).isNull
  /\ ~typeCol(headers).isNull

\* C23: If the key column or the issue-type column of the main CSV cannot
\* be resolved, the analyze run is aborted as a fatal error: the hierarchy
\* builder is not run on that CSV, displayResults is not called for the run
\* and an error message is shown.
C23_UnresolvedColumnsAbort ==
  [][/\ \A u \in 1..Len(Uploads) :
          (RunContinues(u) /\ ~IdentityColumnsResolved(Uploads[u].main.headers))
          => /\ apc' = "idle"
             /\ pc' = "idle"
             /\ errorMessage' = "Analysis Error"
             /\ uiEpicsData' = uiEpicsData
             /\ metricsData' = metricsData
             /\ resultsVisible' = resultsVisible
             /\ thisEpicsData' = thisEpicsData
     /\ pc' # "idle" => IdentityColumnsResolved(thisMainData'.headers)]_vars

\* A run on a CSV without issue-type column has ended with the error.
C23_Witness ==
  /\ errorMessage = "Analysis Error"
  /\ apc = "idle"
  /\ pc = "idle"

\* The analyze runs in flight: those awaiting a file and the one whose
\* pipeline is running.
RunsInFlight == BagSize(runs) + (IF apc = "analyze" THEN 1 ELSE 0)

\* C24: At most one analyze run is in flight at any time: a second
\* invocation of analyzeData cannot begin while the first is awaiting file
\* parsing.
C24_AtMostOneRunInFlight == RunsInFlight <= 1

\* The keys of a list of epics, in order.
KeysOf(es) == [n \in 1..Len(es) |-> es[n].key]

\* A run of the pipeline has computed its results, after an earlier run on
\* the same stored inputs.
SecondRunOnSameData ==
  /\ apc \in {"analyze", "reanalyze"}
  /\ mpc = "done"
  /\ ~previousRun.isNull
  /\ thisMainData = previousRun.main
  /\ thisTimeData = previousRun.time

HierarchyFields(e) == [f \in DOMAIN e \ {"slaStatus"} |-> e[f]]

\* The overall figures that do not depend on the thresholds.
ThresholdFreeFigures(o) == [f \in DOMAIN o \ {"atRiskCount", "atRiskPercentage"} |-> o[f]]

\* C22: Re-running the pipeline on the same stored CSV data after the SLA
\* thresholds change rebuilds the hierarchy from scratch and changes only
\* each epic's slaStatus and the at-risk figures: the epic set and order,
\* every epic's children, totalStoryPoints, completedStoryPoints,
\* timeInStatus and cycleTime are as before the change.
C22_OnlySLAStatusChanges ==
  (SecondRunOnSameData /\ apc = "reanalyze")
  => /\ epicsArg = previousRun.epics
     /\ Len(mergedEpics) = Len(previousRun.merged)
     /\ \A n \in 1..Len(mergedEpics) :
          HierarchyFields(mergedEpics[n]) = HierarchyFields(previousRun.merged[n])
     /\ ThresholdFreeFigures(metrics.overall) = ThresholdFreeFigures(previousRun.overall)

\* A reanalysis under changed thresholds has given the epic another
\* slaStatus.
C22_Witness ==
  /\ SecondRunOnSameData
  /\ apc = "reanalyze"
  /\ thresholds # previousRun.thresholds
  /\ Len(mergedEpics) > 0
  /\ Len(mergedEpics[1].children) > 0
  /\ mergedEpics[1].slaStatus # previousRun.merged[1].slaStatus

\* C28: Whenever no handler is running and the stored epicsData is
\* non-null, it is the merge result computed from the stored mainData and
\* timeData: the three stored fields never come from different uploads.
C28_StoredFieldsAgree ==
  (apc = "idle" /\ ~thisEpicsData.isNull)
  => /\ ~previousRun.isNull
     /\ thisEpicsData.epics = previousRun.merged
     /\ thisMainData = previousRun.main
     /\ thisTimeData = previousRun.time

\* A reanalysis that ends while the results view is hidden.
HiddenReanalysisEnds ==
  /\ apc = "reanalyze"
  /\ apc' = "idle"
  /\ ~resultsVisible

\* C29: After resetForm has cleared the UI, the results view stays hidden
\* and the UI controller's epicsData stays empty until the next analyze
\* run displays results; saving or resetting the SLA thresholds in between
\* does not display results again.
C29_HiddenUntilNextAnalyze ==
  [][HiddenReanalysisEnds => (~resultsVisible' /\ uiEpicsData' = <<>>)]_vars

====
